---- MODULE Spec2Model ----
(***************************************************************************)
(* The analysis request lifecycle of the FastAPI analysis service:         *)
(* AnalysisService.analyze_text and its helpers (src/services.py), the     *)
(* request validators (src/models.py) and the /api/analyze and             *)
(* /api/analyze/status endpoints (src/main.py).                            *)
(*                                                                         *)
(* Conventions.  A Python str is a sequence of one-character strings.      *)
(* A Python dict with string keys is a function whose DOMAIN is the set of *)
(* keys present.  Scores and confidences are binary64 floats, computed     *)
(* with the rounding of the hardware; the elapsed time of a run is a whole *)
(* number.  Coroutines run on one event loop: `running` is the task        *)
(* that holds the loop, 0 when the loop is free, and a task gives the loop *)
(* up only where the code really suspends (asyncio.sleep) or ends.         *)
(***************************************************************************)
EXTENDS Integers, Sequences, FiniteSets, TLC

\* ------------------------------------------------------------------ bounds
\* Number of analysis runs (coroutines of analyze_text) the model starts.
MaxRuns == 2

\* Longest content handed to analyze_text when every content is tried.
MaxContentLen == 5
\* Longest single word handed to analyze_text: beyond the 10 characters at
\* which the length factor of the score stops growing.
MaxWordLen == 12

Tasks == 1 .. MaxRuns
\* The values uuid4 can return; one more than runs, so that some id is never issued.
RequestIds == 1 .. (MaxRuns + 1)

\* ------------------------------------------------------------- characters
Whitespace == {" ", "\t", "\n"}
LowerSeq == <<"a","b","c","d","e","f","g","h","i","j","k","l","m","n","o","p","q","r","s","t","u","v","w","x","y","z">>
UpperSeq == <<"A","B","C","D","E","F","G","H","I","J","K","L","M","N","O","P","Q","R","S","T","U","V","W","X","Y","Z">>
Digits == {"0","1","2","3","4","5","6","7","8","9"}
Letters == {LowerSeq[n] : n \in 1 .. 26} \cup {UpperSeq[n] : n \in 1 .. 26}

isspace(c) == c \in Whitespace
isdigit(c) == c \in Digits
isalpha_char(c) == c \in Letters
lower_char(c) ==
    IF \E n \in 1 .. 26 : UpperSeq[n] = c
    THEN LowerSeq[CHOOSE n \in 1 .. 26 : UpperSeq[n] = c]
    ELSE c

\* str.lower()
lower(s) == [n \in 1 .. Len(s) |-> lower_char(s[n])]
\* str.isalpha(): non-empty and every character a letter
isalpha(s) == Len(s) > 0 /\ \A n \in 1 .. Len(s) : isalpha_char(s[n])

\* str.strip(): drop leading and trailing whitespace
strip(s) ==
    LET keep == {n \in 1 .. Len(s) : ~isspace(s[n])}
    IN  IF keep = {} THEN <<>>
        ELSE LET lo == CHOOSE n \in keep : \A m \in keep : n <= m
                 hi == CHOOSE n \in keep : \A m \in keep : m <= n
             IN  SubSeq(s, lo, hi)

\* str.split() without arguments: the maximal runs of non-whitespace characters
RECURSIVE split_from(_, _, _, _)
split_from(s, k, cur, acc) ==
    IF k > Len(s)
    THEN IF cur = <<>> THEN acc ELSE Append(acc, cur)
    ELSE IF isspace(s[k])
         THEN split_from(s, k + 1, <<>>, IF cur = <<>> THEN acc ELSE Append(acc, cur))
         ELSE split_from(s, k + 1, Append(cur, s[k]), acc)

\* Faulty variant of split: the words come out last first
split_reversed(s) ==
    LET ws == split_from(s, 1, <<>>, <<>>)
    IN  [n \in 1 .. Len(ws) |-> ws[Len(ws) + 1 - n]]

split(s) == split_from(s, 1, <<>>, <<>>)

\* Faulty variant of find: the offset of the last occurrence
find_last(s, sub) ==
    LET hits == {k \in 0 .. (Len(s) - Len(sub)) : SubSeq(s, k + 1, k + Len(sub)) = sub}
    IN  IF hits = {} THEN -1 ELSE CHOOSE k \in hits : \A m \in hits : m <= k

\* str.find(sub): 0-based offset of the first occurrence, -1 when there is none
find(s, sub) ==
    LET hits == {k \in 0 .. (Len(s) - Len(sub)) : SubSeq(s, k + 1, k + Len(sub)) = sub}
    IN  IF hits = {} THEN -1 ELSE CHOOSE k \in hits : \A m \in hits : k <= m

\* Faulty variant of count: the elements that begin with x are counted as well
count_prefixed(xs, x) == Cardinality({n \in 1 .. Len(xs) : Len(xs[n]) >= Len(x) /\ SubSeq(xs[n], 1, Len(x)) = x})

\* list.count(x)
count(xs, x) == Cardinality({n \in 1 .. Len(xs) : xs[n] = x})

\* ------------------------------------------------------ natural numbers
\* Python floats are IEEE binary64.  Their 53-bit significands do not fit a
\* 32-bit integer, so a natural number is a little-endian sequence of limbs
\* below LimbBase with no zero limb at the top (<<>> is 0).
LimbBase == 2 ^ 15

RECURSIVE big_norm(_)
big_norm(a) ==
    IF a = <<>> THEN <<>>
    ELSE IF a[Len(a)] = 0 THEN big_norm(SubSeq(a, 1, Len(a) - 1))
    ELSE a

RECURSIVE big_from_int(_)
big_from_int(n) == IF n = 0 THEN <<>> ELSE <<n % LimbBase>> \o big_from_int(n \div LimbBase)

RECURSIVE big_add_carry(_, _, _)
big_add_carry(a, b, c) ==
    IF a = <<>> /\ b = <<>> THEN (IF c = 0 THEN <<>> ELSE <<c>>)
    ELSE LET x == (IF a = <<>> THEN 0 ELSE Head(a)) + (IF b = <<>> THEN 0 ELSE Head(b)) + c
         IN  <<x % LimbBase>> \o big_add_carry(IF a = <<>> THEN <<>> ELSE Tail(a),
                                                IF b = <<>> THEN <<>> ELSE Tail(b),
                                                x \div LimbBase)

big_add(a, b) == big_add_carry(a, b, 0)

\* a - b for a >= b
RECURSIVE big_sub_borrow(_, _, _)
big_sub_borrow(a, b, c) ==
    IF a = <<>> THEN <<>>
    ELSE LET x == Head(a) - (IF b = <<>> THEN 0 ELSE Head(b)) - c
         IN  <<IF x < 0 THEN x + LimbBase ELSE x>>
                 \o big_sub_borrow(Tail(a), IF b = <<>> THEN <<>> ELSE Tail(b), IF x < 0 THEN 1 ELSE 0)

big_sub(a, b) == big_norm(big_sub_borrow(a, b, 0))

\* -1, 0 or 1 as a < b, a = b or a > b
RECURSIVE big_cmp_from(_, _, _)
big_cmp_from(a, b, n) ==
    IF n = 0 THEN 0
    ELSE IF a[n] < b[n] THEN -1
    ELSE IF a[n] > b[n] THEN 1
    ELSE big_cmp_from(a, b, n - 1)

big_cmp(a, b) ==
    IF Len(a) < Len(b) THEN -1
    ELSE IF Len(a) > Len(b) THEN 1
    ELSE big_cmp_from(a, b, Len(a))

\* a * k for 0 <= k < LimbBase
RECURSIVE big_mul_small_carry(_, _, _)
big_mul_small_carry(a, k, c) ==
    IF a = <<>> THEN (IF c = 0 THEN <<>> ELSE <<c>>)
    ELSE LET x == Head(a) * k + c
         IN  <<x % LimbBase>> \o big_mul_small_carry(Tail(a), k, x \div LimbBase)

big_mul_small(a, k) == IF k = 0 THEN <<>> ELSE big_mul_small_carry(a, k, 0)

big_shift_limbs(a, n) == IF a = <<>> THEN <<>> ELSE [j \in 1 .. n |-> 0] \o a

RECURSIVE big_mul(_, _)
big_mul(a, b) ==
    IF b = <<>> THEN <<>>
    ELSE big_add(big_mul_small(a, Head(b)), big_shift_limbs(big_mul(a, Tail(b)), 1))

\* a * 2^k
big_shl(a, k) == IF k = 0 THEN a ELSE big_mul_small(big_shift_limbs(a, k \div 15), 2 ^ (k % 15))

\* quotient and remainder of a by d, 0 < d <= 2 * LimbBase
RECURSIVE big_divmod_small_from(_, _, _, _, _)
big_divmod_small_from(a, d, n, q, r) ==
    IF n = 0 THEN [q |-> big_norm(q), r |-> r]
    ELSE LET cur == r * LimbBase + a[n]
         IN  big_divmod_small_from(a, d, n - 1, <<cur \div d>> \o q, cur % d)

big_divmod_small(a, d) == big_divmod_small_from(a, d, Len(a), <<>>, 0)

\* floor(a / 2^k)
big_shr(a, k) ==
    IF Len(a) <= k \div 15 THEN <<>>
    ELSE big_divmod_small(SubSeq(a, (k \div 15) + 1, Len(a)), 2 ^ (k % 15)).q

RECURSIVE int_bitlen(_)
int_bitlen(n) == IF n = 0 THEN 0 ELSE 1 + int_bitlen(n \div 2)

\* number of binary digits of a
big_bitlen(a) == IF a = <<>> THEN 0 ELSE 15 * (Len(a) - 1) + int_bitlen(a[Len(a)])

big_is_odd(a) == a # <<>> /\ a[1] % 2 = 1

\* ------------------------------------------------------------------ floats
\* A non-negative float is [m, e] with value m * 2^e, where m has exactly
\* DBL_MANT_DIG binary digits, or is zero ([<<>>, 0]).  All values of the
\* analysis lie far from the overflow and the subnormal range.
DBL_MANT_DIG == 53

FloatZero == [m |-> <<>>, e |-> 0]

\* the float nearest to n * 2^e, ties to the even significand
float_round(n, e) ==
    LET len == big_bitlen(n)
    IN  IF len = 0 THEN FloatZero
        ELSE IF len <= DBL_MANT_DIG
             THEN [m |-> big_shl(n, DBL_MANT_DIG - len), e |-> e - (DBL_MANT_DIG - len)]
             ELSE LET k == len - DBL_MANT_DIG
                      \* the k digits dropped are limbs whole limbs and bits more digits
                      limbs == k \div 15
                      bits == k % 15
                      low == SubSeq(n, 1, limbs)
                      d == big_divmod_small(SubSeq(n, limbs + 1, Len(n)), 2 ^ bits)
                      q == d.q
                      \* the digits dropped against half a unit of the last digit kept
                      c == IF bits > 0
                           THEN (IF d.r < 2 ^ (bits - 1) THEN -1
                                 ELSE IF d.r > 2 ^ (bits - 1) THEN 1
                                 ELSE IF \E j \in 1 .. limbs : low[j] # 0 THEN 1 ELSE 0)
                           ELSE (IF low[limbs] < LimbBase \div 2 THEN -1
                                 ELSE IF low[limbs] > LimbBase \div 2 THEN 1
                                 ELSE IF \E j \in 1 .. (limbs - 1) : low[j] # 0 THEN 1 ELSE 0)
                      up == c > 0 \/ (c = 0 /\ big_is_odd(q))
                      m == IF up THEN big_add(q, <<1>>) ELSE q
                  IN  IF big_bitlen(m) > DBL_MANT_DIG
                      THEN [m |-> big_shr(m, 1), e |-> e + k + 1]
                      ELSE [m |-> m, e |-> e + k]

\* float(n) for an int n >= 0
float_from_int(n) == float_round(big_from_int(n), 0)

\* x + y
float_add(x, y) ==
    IF x.m = <<>> THEN y
    ELSE IF y.m = <<>> THEN x
    ELSE LET e == IF x.e <= y.e THEN x.e ELSE y.e
         IN  float_round(big_add(big_shl(x.m, x.e - e), big_shl(y.m, y.e - e)), e)

\* x * y
float_mul(x, y) ==
    IF x.m = <<>> \/ y.m = <<>> THEN FloatZero
    ELSE float_round(big_mul(x.m, y.m), x.e + y.e)

\* x / n for an int n with 0 < n <= 2 * LimbBase: the quotient is taken to two
\* digits more than a significand and a last digit records a remainder
float_div_int(x, n) ==
    IF x.m = <<>> THEN FloatZero
    ELSE LET k == int_bitlen(n) + 2
             d == big_divmod_small(big_shl(x.m, k), n)
             q2 == big_add(d.q, d.q)
         IN  float_round(IF d.r = 0 THEN q2 ELSE big_add(q2, <<1>>), x.e - k - 1)

\* -1, 0 or 1 as x < y, x = y or x > y
float_cmp(x, y) ==
    IF x.m = <<>> THEN (IF y.m = <<>> THEN 0 ELSE -1)
    ELSE IF y.m = <<>> THEN 1
    ELSE IF x.e < y.e THEN -1
    ELSE IF x.e > y.e THEN 1
    ELSE big_cmp(x.m, y.m)

float_le(x, y) == float_cmp(x, y) <= 0
float_lt(x, y) == float_cmp(x, y) < 0

\* min(x, y) and max(x, y) of the built-ins: the first argument wins a tie
float_min(x, y) == IF float_lt(y, x) THEN y ELSE x
float_max(x, y) == IF float_lt(x, y) THEN y ELSE x

\* the float literal n / 10^digits, which is the float nearest to that fraction
decimal(n, digits) == float_div_int(float_from_int(n), 10 ^ digits)

\* the literals 1.0, 0.1 and 0.9
FloatOne == float_from_int(1)
FloatTenth == decimal(1, 1)
FloatNineTenths == decimal(9, 1)

\* sum(xs) of floats: 0 + xs[0] + xs[1] + ..., each addition rounded
RECURSIVE sum_from(_, _)
sum_from(xs, acc) == IF xs = <<>> THEN acc ELSE sum_from(Tail(xs), float_add(acc, Head(xs)))

sum(xs) == sum_from(xs, FloatZero)

\* min(xs) and max(xs) of a non-empty list of floats
min_of(xs) == CHOOSE x \in {xs[n] : n \in 1 .. Len(xs)} : \A n \in 1 .. Len(xs) : float_le(x, xs[n])
max_of(xs) == CHOOSE x \in {xs[n] : n \in 1 .. Len(xs)} : \A n \in 1 .. Len(xs) : float_le(xs[n], x)

\* ------------------------------------------------------------ enumerations
\* models.AnalysisStatus
PENDING == "pending"
PROCESSING == "processing"
COMPLETED == "completed"
FAILED == "failed"
AnalysisStatus == {PENDING, PROCESSING, COMPLETED, FAILED}

\* models.TermClassification
VALID == "valid"
REVIEW == "review"
CRITICAL == "critical"
SPELLING == "spelling"
GRAMMAR == "grammar"
TermClassification == {VALID, REVIEW, CRITICAL, SPELLING, GRAMMAR}

\* ------------------------------------------------------ request validation
MAX_CONTENT_LENGTH == 100000
allowed_languages == {"en", "es", "fr", "de", "it", "pt", "ja", "zh", "ko"}

\* Field(min_length=1, max_length=100000) and validate_content: TRUE when accepted
content_valid(v) ==
    /\ Len(v) >= 1
    /\ Len(v) <= MAX_CONTENT_LENGTH
    /\ ~(v = <<>> \/ strip(v) = <<>>)

\* validate_content returns the stripped content
validate_content(v) == strip(v)

\* Faulty variant of validate_language: the allow-list is not consulted
validate_language_any(v) == TRUE

\* validate_language: TRUE when accepted
validate_language(v) == v \in allowed_languages

\* The model AnalysisRequest is built (and validated) before the endpoint body runs
AnalysisRequest_valid(req) == content_valid(req.content) /\ validate_language(req.language)

\* ------------------------------------------------------------ term analysis
stop_words == {<<"t","h","e">>, <<"a","n","d">>, <<"o","r">>, <<"b","u","t">>, <<"i","n">>, <<"o","n">>, <<"a","t">>, <<"t","o">>}

\* Faulty variant of _classify_term: the alphabetic test is made before the digit test
_classify_term_unordered(term, language, domain) ==
    IF Len(term) < 2 THEN CRITICAL
    ELSE IF lower(term) \in stop_words THEN VALID
    ELSE IF ~isalpha(term) THEN SPELLING
    ELSE IF \E n \in 1 .. Len(term) : isdigit(term[n]) THEN REVIEW
    ELSE VALID

_classify_term(term, language, domain) ==
    IF Len(term) < 2 THEN CRITICAL
    ELSE IF lower(term) \in stop_words THEN VALID
    ELSE IF \E n \in 1 .. Len(term) : isdigit(term[n]) THEN REVIEW
    ELSE IF ~isalpha(term) THEN SPELLING
    ELSE VALID

\* the dict base_scores
base_scores ==
    (VALID :> decimal(9, 1)) @@ (REVIEW :> decimal(6, 1)) @@ (CRITICAL :> decimal(3, 1))
        @@ (SPELLING :> decimal(2, 1)) @@ (GRAMMAR :> decimal(4, 1))
\* the literal 0.5
FloatHalf == decimal(5, 1)

\* base_scores.get(classification, 0.5)
base_score(classification) ==
    IF classification \in DOMAIN base_scores THEN base_scores[classification] ELSE FloatHalf

\* length_factor = min(1.0, len(term) / 10)
length_factor(term) == float_min(FloatOne, float_div_int(float_from_int(Len(term)), 10))

\* Faulty variant of _calculate_term_score: the length factor is not capped at 1.0
_calculate_term_score_uncapped(term, classification) ==
    float_min(FloatOne,
              float_add(base_score(classification),
                        float_mul(float_div_int(float_from_int(Len(term)), 10), FloatTenth)))

\* min(1.0, base_score + (length_factor * 0.1))
_calculate_term_score(term, classification) ==
    float_min(FloatOne,
              float_add(base_score(classification), float_mul(length_factor(term), FloatTenth)))

\* Faulty variant of term_confidence: the sum is not clamped
term_confidence_unclamped(score) == float_add(score, FloatTenth)

\* confidence = min(0.9, max(0.1, score + 0.1))
term_confidence(score) ==
    float_min(FloatNineTenths, float_max(FloatTenth, float_add(score, FloatTenth)))

\* The AnalyzedTerm built for one word of the loop in _analyze_terms
\* Python's None: an unassigned local, an absent optional field
None == [none |-> TRUE]

\* str.upper() of one character
upper_char(c) ==
    IF \E n \in 1 .. 26 : LowerSeq[n] = c
    THEN UpperSeq[CHOOSE n \in 1 .. 26 : LowerSeq[n] = c]
    ELSE c

\* Faulty variant of capitalize: the characters after the first are kept as they are
capitalize_first_only(s) == [n \in 1 .. Len(s) |-> IF n = 1 THEN upper_char(s[n]) ELSE s[n]]

\* str.capitalize(): the first character in upper case, the others in lower case
capitalize(s) == [n \in 1 .. Len(s) |-> IF n = 1 THEN upper_char(s[n]) ELSE lower_char(s[n])]

\* _extract_context: the first occurrence with up to 50 characters on each side
context_window == 50
_extract_context(content, term) ==
    LET index == find(content, term)
        start == IF index - context_window > 0 THEN index - context_window ELSE 0
        stop == IF index + Len(term) + context_window < Len(content) THEN index + Len(term) + context_window ELSE Len(content)
    IN  IF index = -1 THEN <<>> ELSE SubSeq(content, start + 1, stop)

\* the f-string tails of _generate_rationale
rationale_valid == <<"'"," ","i","s"," ","c","o","r","r","e","c","t","l","y"," ","u","s","e","d"," ","a","n","d"," ","a","p","p","r","o","p","r","i","a","t","e"," ","f","o","r"," ","t","h","e"," ","c","o","n","t","e","x","t",".">>
rationale_review == <<"'"," ","m","a","y"," ","n","e","e","d"," ","r","e","v","i","e","w"," ","f","o","r"," ","c","o","n","s","i","s","t","e","n","c","y"," ","o","r"," ","c","l","a","r","i","t","y",".">>
rationale_critical == <<"'"," ","r","e","q","u","i","r","e","s"," ","i","m","m","e","d","i","a","t","e"," ","a","t","t","e","n","t","i","o","n"," ","d","u","e"," ","t","o"," ","p","o","t","e","n","t","i","a","l"," ","i","s","s","u","e","s",".">>
rationale_spelling == <<"'"," ","a","p","p","e","a","r","s"," ","t","o"," ","h","a","v","e"," ","s","p","e","l","l","i","n","g"," ","e","r","r","o","r","s",".">>
rationale_grammar == <<"'"," ","h","a","s"," ","g","r","a","m","m","a","t","i","c","a","l"," ","i","s","s","u","e","s"," ","t","h","a","t"," ","s","h","o","u","l","d"," ","b","e"," ","a","d","d","r","e","s","s","e","d",".">>
rationale_default == <<"'"," ","h","a","s"," ","b","e","e","n"," ","a","n","a","l","y","z","e","d",".">>
_generate_rationale(term, classification) ==
    <<"'">> \o term \o
    (IF classification = VALID THEN rationale_valid
     ELSE IF classification = REVIEW THEN rationale_review
     ELSE IF classification = CRITICAL THEN rationale_critical
     ELSE IF classification = SPELLING THEN rationale_spelling
     ELSE IF classification = GRAMMAR THEN rationale_grammar
     ELSE rationale_default)

\* the fixed suggestions of _generate_suggestions
suggestions_critical == <<<<"C","o","n","s","i","d","e","r"," ","r","e","p","h","r","a","s","i","n","g">>, <<"C","h","e","c","k"," ","f","o","r"," ","a","c","c","u","r","a","c","y">>, <<"V","e","r","i","f","y"," ","c","o","n","t","e","x","t">>>>
suggestions_review == <<<<"R","e","v","i","e","w"," ","f","o","r"," ","c","l","a","r","i","t","y">>, <<"C","o","n","s","i","d","e","r"," ","a","l","t","e","r","n","a","t","i","v","e","s">>>>
_generate_suggestions(term, classification) ==
    IF classification = SPELLING THEN <<term \o <<"e","d">>, term \o <<"i","n","g">>, capitalize(term)>>
    ELSE IF classification = CRITICAL THEN suggestions_critical
    ELSE IF classification = REVIEW THEN suggestions_review
    ELSE <<>>

AnalyzedTerm(content, words, word, language, domain) ==
    LET classification == _classify_term(word, language, domain)
        score == _calculate_term_score(word, classification)
    IN  [text |-> word,
         start_position |-> find(content, word),
         end_position |-> find(content, word) + Len(word),
         classification |-> classification,
         score |-> score,
         confidence |-> term_confidence(score),
         frequency |-> count(words, word),
         context |-> _extract_context(content, word),
         rationale |-> _generate_rationale(word, classification),
         suggestions |-> IF classification # VALID THEN _generate_suggestions(word, classification) ELSE None]

\* AnalyzedTerm's field constraints (pydantic raises ValidationError otherwise)
AnalyzedTerm_valid(term) ==
    /\ float_le(FloatZero, term.score) /\ float_le(term.score, FloatOne)
    /\ float_le(FloatZero, term.confidence) /\ float_le(term.confidence, FloatOne)
    /\ term.frequency >= 0

\* ------------------------------------------------------------- statistics
\* Faulty variant of class_count: equal terms are counted once
class_count_distinct(terms, c) == Cardinality({term \in {terms[n] : n \in 1 .. Len(terms)} : term.classification = c})

\* classification_counts[c] after the loop over the terms
class_count(terms, c) == Cardinality({n \in 1 .. Len(terms) : terms[n].classification = c})
\* Faulty variant of mean: the mean of no values is 1.0
mean_default_one(xs) == IF xs = <<>> THEN FloatOne ELSE float_div_int(sum(xs), Len(xs))

\* sum(xs) / len(xs) if xs else 0.0
mean(xs) == IF xs = <<>> THEN FloatZero ELSE float_div_int(sum(xs), Len(xs))

\* Faulty variant of _calculate_statistics: the counts of spelling and of
\* grammar terms are exchanged
_calculate_statistics_exchanged(terms, processing_time) ==
    LET scores == [n \in 1 .. Len(terms) |-> terms[n].score]
        confidences == [n \in 1 .. Len(terms) |-> terms[n].confidence]
    IN  [total_terms |-> Len(terms),
         valid_terms |-> class_count(terms, VALID),
         review_terms |-> class_count(terms, REVIEW),
         critical_terms |-> class_count(terms, CRITICAL),
         spelling_errors |-> class_count(terms, GRAMMAR),
         grammar_errors |-> class_count(terms, SPELLING),
         quality_score |-> mean(scores),
         confidence_min |-> IF confidences = <<>> THEN FloatZero ELSE min_of(confidences),
         confidence_max |-> IF confidences = <<>> THEN FloatZero ELSE max_of(confidences),
         confidence_avg |-> mean(confidences),
         coverage |-> FloatOne,
         processing_time |-> processing_time]

_calculate_statistics(terms, processing_time) ==
    LET scores == [n \in 1 .. Len(terms) |-> terms[n].score]
        confidences == [n \in 1 .. Len(terms) |-> terms[n].confidence]
    IN  [total_terms |-> Len(terms),
         valid_terms |-> class_count(terms, VALID),
         review_terms |-> class_count(terms, REVIEW),
         critical_terms |-> class_count(terms, CRITICAL),
         spelling_errors |-> class_count(terms, SPELLING),
         grammar_errors |-> class_count(terms, GRAMMAR),
         quality_score |-> mean(scores),
         confidence_min |-> IF confidences = <<>> THEN FloatZero ELSE min_of(confidences),
         confidence_max |-> IF confidences = <<>> THEN FloatZero ELSE max_of(confidences),
         confidence_avg |-> mean(confidences),
         coverage |-> FloatOne,
         processing_time |-> processing_time]

\* AnalysisStatistics' field constraints (pydantic raises ValidationError otherwise)
AnalysisStatistics_valid(st) ==
    /\ st.total_terms >= 0 /\ st.valid_terms >= 0 /\ st.review_terms >= 0
    /\ st.critical_terms >= 0 /\ st.spelling_errors >= 0 /\ st.grammar_errors >= 0
    /\ float_le(FloatZero, st.quality_score) /\ float_le(st.quality_score, FloatOne)
    /\ float_le(FloatZero, st.confidence_min) /\ float_le(st.confidence_min, FloatOne)
    /\ float_le(FloatZero, st.confidence_max) /\ float_le(st.confidence_max, FloatOne)
    /\ float_le(FloatZero, st.confidence_avg) /\ float_le(st.confidence_avg, FloatOne)
    /\ float_le(FloatZero, st.coverage) /\ float_le(st.coverage, FloatOne)
    /\ st.processing_time >= 0

\* ------------------------------------------------------------------ inputs
\* Request bodies posted to /api/analyze: empty, blank, one word with padding,
\* a language outside the allow-list, and eleven words (the annotator suspends
\* after word 0 and after word 10).
content_empty == <<>>
content_blank == <<" ", "\t">>
content_one == <<" ", "a", " ">>
content_eleven == <<"t","h","e"," ","x","1"," ","a","-","b"," ","G","o"," ","a"," ","b"," ","c"," ","d"," ","e"," ","f"," ","g">>
Requests ==
    {[content |-> content_empty, language |-> "en", domain |-> "general"],
     [content |-> content_blank, language |-> "en", domain |-> "general"],
     [content |-> content_one, language |-> "en", domain |-> "general"],
     [content |-> content_one, language |-> "xx", domain |-> "general"],
     [content |-> content_eleven, language |-> "es", domain |-> "legal"]}

\* Every content of at most MaxContentLen characters over a letter, a digit,
\* a punctuation mark and a blank
Alphabet == {"a", "1", "-", " "}
ShortContents == UNION {[1 .. n -> Alphabet] : n \in 0 .. MaxContentLen}
\* One longer word, of letters alone or led by a digit or a punctuation mark
LongWords == {[k \in 1 .. n |-> IF k = 1 THEN c ELSE "a"] : n \in (MaxContentLen + 1) .. MaxWordLen, c \in {"a", "1", "-"}}
\* Contents with stop words in lower and upper case: "at", "The", "OR or1"
StopWordContents == {<<"a","t">>, <<"T","h","e">>, <<"O","R"," ","o","r","1">>}
\* Contents with a punctuation mark and letters of both cases: "a-B", "-A b"
MixedCaseContents == {<<"a","-","B">>, <<"-","A"," ","b">>}
Contents == ShortContents \cup LongWords \cup StopWordContents \cup MixedCaseContents

\* time.time() - start_time: the wall clock may be stepped back during a run
Elapsed == {-1, 0, 1}

\* ------------------------------------------------------------------- state
VARIABLES active_requests, tasks, running, reply, batch, projects, created

vars == <<active_requests, tasks, running, reply, batch, projects, created>>

\* reply is the answer of the boundary call handled by the last step (a status
\* lookup or a refused request), NoReply after any other step.
\* batch is the call of analyze_batch in progress: its requests and the results
\* collected so far. projects is the dict SessionManager.projects, its items
\* in the order of insertion; created lists the calls of create_project made so
\* far, each with its caller and the project it returned.
\* The absence of an exception, no reply, no batch
NoException == ""
NoReply == [op |-> "none"]
NoBatch == [pc |-> "idle", requests |-> <<>>, results |-> <<>>]
NOT_FOUND == [status |-> "not_found"]

\* d[k] = v on a Python dict
SetItem(d, k, v) == [x \in (DOMAIN d) \cup {k} |-> IF x = k THEN v ELSE d[x]]

\* The locals of one analyze_text coroutine and what its caller received
IdleTask ==
    [pc |-> "idle", content |-> <<>>, language |-> "", domain |-> "",
     request_id |-> 0, words |-> <<>>, i |-> 0, terms |-> <<>>,
     statistics |-> None, response |-> None, exc |-> NoException,
     returned |-> None, raised |-> NoException]

Init ==
    /\ active_requests = <<>>
    /\ tasks = [t \in Tasks |-> IdleTask]
    /\ running = 0
    /\ reply = NoReply
    /\ batch = NoBatch
    /\ projects = <<>>
    /\ created = <<>>

\* A task may take its next step when it holds the event loop or the loop is free
CanRun(t) == running \in {0, t}

\* ---------------------------------------------------------------- endpoint
\* main.analyze_text, line 175: the endpoint's own emptiness check
endpoint_rejects(content) == content = <<>> \/ Len(strip(content)) = 0

\* POST /api/analyze with a request the validators or the endpoint refuse
analyze_rejected(req) ==
    /\ running = 0
    /\ ~AnalysisRequest_valid(req) \/ endpoint_rejects(validate_content(req.content))
    /\ UNCHANGED <<batch, projects, created>>
    /\ reply' = [op |-> "analyze", request |-> req, error |-> "rejected"]
    /\ UNCHANGED <<active_requests, tasks, running>>

\* POST /api/analyze with an accepted request: the service coroutine is created
analyze_accepted(t, req) ==
    /\ running = 0
    /\ tasks[t].pc = "idle"
    /\ \A u \in Tasks : u < t => tasks[u].pc # "idle"
    /\ AnalysisRequest_valid(req)
    /\ ~endpoint_rejects(validate_content(req.content))
    /\ tasks' = [tasks EXCEPT ![t].pc = "start",
                              ![t].content = validate_content(req.content),
                              ![t].language = req.language,
                              ![t].domain = req.domain]
    /\ UNCHANGED <<batch, projects, created>>
    /\ reply' = NoReply
    /\ UNCHANGED <<active_requests, running>>

\* ------------------------------------------------------------ analyze_text
\* Faulty variant of uuid4: identifiers that may repeat (a truncated or constant id)
uuid4_colliding(used) == RequestIds

\* str(uuid.uuid4()): an identifier no earlier run was given
uuid4(used) == RequestIds \ used

\* lines 97-106: request_id = uuid4(); active_requests[request_id] = {...}
register(t) ==
    /\ CanRun(t)
    /\ tasks[t].pc = "start"
    /\ \E rid \in uuid4(DOMAIN active_requests) :
        /\ tasks' = [tasks EXCEPT ![t].pc = "progress_25", ![t].request_id = rid]
        /\ active_requests' = SetItem(active_requests, rid, [status |-> PROCESSING, progress |-> 0])
    /\ running' = t
    /\ UNCHANGED <<batch, projects, created>>
    /\ reply' = NoReply

\* Faulty variant of _update_progress: the progress is written to every entry
_update_progress_all(requests, request_id, progress) ==
    [k \in DOMAIN requests |-> SetItem(requests[k], "progress", progress)]

_update_progress(requests, request_id, progress) ==
    IF request_id \in DOMAIN requests
    THEN [requests EXCEPT ![request_id] = SetItem(@, "progress", progress)]
    ELSE requests

\* line 109
update_progress_25(t) ==
    /\ CanRun(t)
    /\ tasks[t].pc = "progress_25"
    /\ active_requests' = _update_progress(active_requests, tasks[t].request_id, 25)
    /\ tasks' = [tasks EXCEPT ![t].pc = "annotate"]
    /\ running' = t
    /\ UNCHANGED <<batch, projects, created>>
    /\ reply' = NoReply

\* _analyze_terms, lines 154-155: terms = []; words = content.split()
analyze_terms_begin(t) ==
    /\ CanRun(t)
    /\ tasks[t].pc = "annotate"
    /\ tasks' = [tasks EXCEPT ![t].pc = "loop", ![t].words = split(tasks[t].content),
                              ![t].i = 0, ![t].terms = <<>>]
    /\ running' = t
    /\ UNCHANGED <<batch, projects, created>>
    /\ reply' = NoReply
    /\ UNCHANGED active_requests

\* Faulty variant of analyze_terms_word: terms is one list shared by the runs,
\* so a term is appended for every run that is in its loop
analyze_terms_word_shared(t) ==
    /\ CanRun(t)
    /\ tasks[t].pc = "loop"
    /\ tasks[t].i < Len(tasks[t].words)
    /\ LET me == tasks[t]
           term == AnalyzedTerm(me.content, me.words, me.words[me.i + 1], me.language, me.domain)
       IN  /\ tasks' = [u \in Tasks |->
                          IF u = t THEN [me EXCEPT !.terms = Append(me.terms, term), !.i = me.i + 1]
                          ELSE IF tasks[u].pc = "loop" THEN [tasks[u] EXCEPT !.terms = Append(@, term)]
                          ELSE tasks[u]]
           /\ running' = IF me.i % 10 = 0 THEN 0 ELSE t
    /\ UNCHANGED <<batch, projects, created>>
    /\ reply' = NoReply
    /\ UNCHANGED active_requests

\* _analyze_terms, lines 157-179: one iteration of the loop; after the words
\* with i % 10 == 0 the coroutine sleeps and gives up the event loop
analyze_terms_word(t) ==
    /\ CanRun(t)
    /\ tasks[t].pc = "loop"
    /\ tasks[t].i < Len(tasks[t].words)
    /\ LET me == tasks[t]
           term == AnalyzedTerm(me.content, me.words, me.words[me.i + 1], me.language, me.domain)
       IN  IF AnalyzedTerm_valid(term)
           THEN /\ tasks' = [tasks EXCEPT ![t].terms = Append(me.terms, term), ![t].i = me.i + 1]
                /\ running' = IF me.i % 10 = 0 THEN 0 ELSE t
           ELSE /\ tasks' = [tasks EXCEPT ![t].pc = "except", ![t].exc = "ValidationError",
                                        ![t].words = <<>>, ![t].i = 0, ![t].terms = <<>>]
                /\ running' = t
    /\ UNCHANGED <<batch, projects, created>>
    /\ reply' = NoReply
    /\ UNCHANGED active_requests

\* _analyze_terms: the interpreter runs out of memory while building a term
\* (MemoryError is an Exception, so the handler at line 135 catches it);
\* the frame of _analyze_terms and its locals are gone
analyze_terms_raise(t) ==
    /\ CanRun(t)
    /\ tasks[t].pc = "loop"
    /\ tasks[t].i < Len(tasks[t].words)
    /\ tasks' = [tasks EXCEPT ![t].pc = "except", ![t].exc = "MemoryError",
                              ![t].words = <<>>, ![t].i = 0, ![t].terms = <<>>]
    /\ running' = t
    /\ UNCHANGED <<batch, projects, created>>
    /\ reply' = NoReply
    /\ UNCHANGED active_requests

\* _analyze_terms, line 181, and the assignment of line 112; the locals of
\* _analyze_terms end with its frame
analyze_terms_return(t) ==
    /\ CanRun(t)
    /\ tasks[t].pc = "loop"
    /\ tasks[t].i = Len(tasks[t].words)
    /\ tasks' = [tasks EXCEPT ![t].pc = "progress_75", ![t].words = <<>>, ![t].i = 0]
    /\ running' = t
    /\ UNCHANGED <<batch, projects, created>>
    /\ reply' = NoReply
    /\ UNCHANGED active_requests

\* Faulty variant of update_progress_75: a mistyped progress value
update_progress_75_typo(t) ==
    /\ CanRun(t)
    /\ tasks[t].pc = "progress_75"
    /\ active_requests' = _update_progress(active_requests, tasks[t].request_id, 57)
    /\ tasks' = [tasks EXCEPT ![t].pc = "statistics"]
    /\ running' = t
    /\ UNCHANGED <<batch, projects, created>>
    /\ reply' = NoReply

\* line 113
update_progress_75(t) ==
    /\ CanRun(t)
    /\ tasks[t].pc = "progress_75"
    /\ active_requests' = _update_progress(active_requests, tasks[t].request_id, 75)
    /\ tasks' = [tasks EXCEPT ![t].pc = "statistics"]
    /\ running' = t
    /\ UNCHANGED <<batch, projects, created>>
    /\ reply' = NoReply

\* line 116: statistics = _calculate_statistics(terms, time.time() - start_time);
\* AnalysisStatistics refuses a negative processing_time
calculate_statistics(t) ==
    /\ CanRun(t)
    /\ tasks[t].pc = "statistics"
    /\ \E elapsed \in Elapsed :
        LET st == _calculate_statistics(tasks[t].terms, elapsed)
        IN  IF elapsed >= 0 /\ AnalysisStatistics_valid(st)
            THEN tasks' = [tasks EXCEPT ![t].pc = "progress_100", ![t].statistics = st]
            ELSE tasks' = [tasks EXCEPT ![t].pc = "except", ![t].exc = "ValidationError"]
    /\ running' = t
    /\ UNCHANGED <<batch, projects, created>>
    /\ reply' = NoReply
    /\ UNCHANGED active_requests

\* Faulty variant of update_progress_100: the last progress update is left out
update_progress_100_skipped(t) ==
    /\ CanRun(t)
    /\ tasks[t].pc = "progress_100"
    /\ tasks' = [tasks EXCEPT ![t].pc = "response"]
    /\ running' = t
    /\ UNCHANGED <<batch, projects, created>>
    /\ reply' = NoReply
    /\ UNCHANGED active_requests

\* line 117
update_progress_100(t) ==
    /\ CanRun(t)
    /\ tasks[t].pc = "progress_100"
    /\ active_requests' = _update_progress(active_requests, tasks[t].request_id, 100)
    /\ tasks' = [tasks EXCEPT ![t].pc = "response"]
    /\ running' = t
    /\ UNCHANGED <<batch, projects, created>>
    /\ reply' = NoReply

AnalysisResponse(terms, statistics, status, request_id, language, domain) ==
    [terms |-> terms, statistics |-> statistics, status |-> status,
     request_id |-> request_id, language |-> language, domain |-> domain]

\* lines 120-127
create_response(t) ==
    /\ CanRun(t)
    /\ tasks[t].pc = "response"
    /\ LET me == tasks[t]
       IN  tasks' = [tasks EXCEPT ![t].pc = "set_completed",
                                  ![t].response = AnalysisResponse(me.terms, me.statistics, COMPLETED,
                                                                   me.request_id, me.language, me.domain)]
    /\ running' = t
    /\ UNCHANGED <<batch, projects, created>>
    /\ reply' = NoReply
    /\ UNCHANGED active_requests

\* Faulty variant of set_completed: the coroutine suspends between lines 130 and 131
set_completed_yields(t) ==
    /\ CanRun(t)
    /\ tasks[t].pc = "set_completed"
    /\ active_requests' = [active_requests EXCEPT ![tasks[t].request_id] = SetItem(@, "status", COMPLETED)]
    /\ tasks' = [tasks EXCEPT ![t].pc = "set_result"]
    /\ running' = 0
    /\ UNCHANGED <<batch, projects, created>>
    /\ reply' = NoReply

\* line 130
set_completed(t) ==
    /\ CanRun(t)
    /\ tasks[t].pc = "set_completed"
    /\ active_requests' = [active_requests EXCEPT ![tasks[t].request_id] = SetItem(@, "status", COMPLETED)]
    /\ tasks' = [tasks EXCEPT ![t].pc = "set_result"]
    /\ running' = t
    /\ UNCHANGED <<batch, projects, created>>
    /\ reply' = NoReply

\* Faulty variant of set_result: attaching the result raises inside the try block
set_result_raises(t) ==
    /\ CanRun(t)
    /\ tasks[t].pc = "set_result"
    /\ tasks' = [tasks EXCEPT ![t].pc = "except", ![t].exc = "TypeError"]
    /\ running' = t
    /\ UNCHANGED <<batch, projects, created>>
    /\ reply' = NoReply
    /\ UNCHANGED active_requests

\* line 131
set_result(t) ==
    /\ CanRun(t)
    /\ tasks[t].pc = "set_result"
    /\ active_requests' = [active_requests EXCEPT ![tasks[t].request_id] = SetItem(@, "result", tasks[t].response)]
    /\ tasks' = [tasks EXCEPT ![t].pc = "return"]
    /\ running' = t
    /\ UNCHANGED <<batch, projects, created>>
    /\ reply' = NoReply

\* line 133: the coroutine ends and its caller receives the response; of the
\* task the model keeps the request id it ran under and what its caller got
return_response(t) ==
    /\ CanRun(t)
    /\ tasks[t].pc = "return"
    /\ tasks' = [tasks EXCEPT ![t] = [IdleTask EXCEPT !.pc = "done", !.request_id = tasks[t].request_id,
                                                       !.returned = tasks[t].response]]
    /\ running' = 0
    /\ UNCHANGED <<batch, projects, created>>
    /\ reply' = NoReply
    /\ UNCHANGED active_requests

\* Faulty variant of except_status: the handler does not record the failed status
except_status_skipped(t) ==
    /\ CanRun(t)
    /\ tasks[t].pc = "except"
    /\ tasks' = [tasks EXCEPT ![t].pc = "except_error"]
    /\ running' = t
    /\ UNCHANGED <<batch, projects, created>>
    /\ reply' = NoReply
    /\ UNCHANGED active_requests

\* line 137
except_status(t) ==
    /\ CanRun(t)
    /\ tasks[t].pc = "except"
    /\ active_requests' = [active_requests EXCEPT ![tasks[t].request_id] = SetItem(@, "status", FAILED)]
    /\ tasks' = [tasks EXCEPT ![t].pc = "except_error"]
    /\ running' = t
    /\ UNCHANGED <<batch, projects, created>>
    /\ reply' = NoReply

\* Faulty variant of except_error: the handler does not attach the message
except_error_silent(t) ==
    /\ CanRun(t)
    /\ tasks[t].pc = "except_error"
    /\ tasks' = [tasks EXCEPT ![t].pc = "raise"]
    /\ running' = t
    /\ UNCHANGED <<batch, projects, created>>
    /\ reply' = NoReply
    /\ UNCHANGED active_requests

\* line 138
except_error(t) ==
    /\ CanRun(t)
    /\ tasks[t].pc = "except_error"
    /\ active_requests' = [active_requests EXCEPT ![tasks[t].request_id] = SetItem(@, "error", tasks[t].exc)]
    /\ tasks' = [tasks EXCEPT ![t].pc = "raise"]
    /\ running' = t
    /\ UNCHANGED <<batch, projects, created>>
    /\ reply' = NoReply

\* line 139: the coroutine ends and its caller receives the exception
reraise(t) ==
    /\ CanRun(t)
    /\ tasks[t].pc = "raise"
    /\ tasks' = [tasks EXCEPT ![t] = [IdleTask EXCEPT !.pc = "done", !.request_id = tasks[t].request_id,
                                                       !.raised = tasks[t].exc]]
    /\ running' = 0
    /\ UNCHANGED <<batch, projects, created>>
    /\ reply' = NoReply
    /\ UNCHANGED active_requests

\* --------------------------------------------------------- status lookup
\* Faulty variant of get_analysis_status: active_requests[request_id] raises KeyError
get_analysis_status_getitem(requests, request_id) ==
    IF request_id \in DOMAIN requests THEN requests[request_id] ELSE [raised |-> "KeyError"]

\* self.active_requests.get(request_id, {"status": "not_found"})
get_analysis_status(requests, request_id) ==
    IF request_id \in DOMAIN requests THEN requests[request_id] ELSE NOT_FOUND

\* Faulty variant of status_lookup: setdefault inserts the sentinel for an unknown id
status_lookup_setdefault(request_id) ==
    /\ running = 0
    /\ UNCHANGED <<batch, projects, created>>
    /\ reply' = [op |-> "status", request_id |-> request_id,
                 value |-> get_analysis_status(active_requests, request_id)]
    /\ active_requests' = IF request_id \in DOMAIN active_requests THEN active_requests
                           ELSE SetItem(active_requests, request_id, NOT_FOUND)
    /\ UNCHANGED <<tasks, running>>

\* GET /api/analyze/status/{request_id}: the coroutine has no suspension point
status_lookup(request_id) ==
    /\ running = 0
    /\ UNCHANGED <<batch, projects, created>>
    /\ reply' = [op |-> "status", request_id |-> request_id,
                 value |-> get_analysis_status(active_requests, request_id)]
    /\ UNCHANGED <<active_requests, tasks, running>>

\* ---------------------------------------------------------------- projects
MaxProjects == 3
Users == {"ann", "bob"}
ProjectIds == 1 .. (MaxProjects + 1)
\* ProjectData: a name and the visibility; the other fields at their defaults
ProjectDatas ==
    {[name |-> <<"p">>, description |-> None, language |-> "en", domain |-> "general",
      settings |-> None, tags |-> None, is_public |-> public] : public \in BOOLEAN}

\* Project(...): the fields of the data, the identifier, the owner and the
\* defaults of the other fields; the two timestamps are left out
Project(project_id, user_id, project_data) ==
    [project_id |-> project_id, user_id |-> user_id, name |-> project_data.name,
     description |-> project_data.description, language |-> project_data.language,
     domain |-> project_data.domain, settings |-> project_data.settings,
     tags |-> project_data.tags, is_public |-> project_data.is_public,
     analysis_count |-> 0, file_count |-> 0, status |-> "active"]

\* The dict projects: d[key] = value replaces the value of a key in place and
\* puts a new key last; d.get(key) is None when the key is absent
project_keys(d) == {d[n].project_id : n \in 1 .. Len(d)}
dict_set(d, key, value) ==
    IF key \in project_keys(d)
    THEN [n \in 1 .. Len(d) |-> IF d[n].project_id = key THEN value ELSE d[n]]
    ELSE Append(d, value)
dict_get(d, key) ==
    IF key \in project_keys(d)
    THEN d[CHOOSE n \in 1 .. Len(d) : d[n].project_id = key]
    ELSE None

\* SessionManager.create_project
create_project(user_id, project_data) ==
    /\ running = 0
    /\ Len(created) < MaxProjects
    /\ \E project_id \in ProjectIds \ project_keys(projects) :
           LET project == Project(project_id, user_id, project_data)
           IN  /\ projects' = dict_set(projects, project_id, project)
               /\ created' = Append(created, [user_id |-> user_id, project |-> project])
               /\ reply' = [op |-> "create_project", user_id |-> user_id, value |-> project]
    /\ UNCHANGED <<active_requests, tasks, running, batch>>

\* the list comprehension of get_user_projects, over a prefix of the values
RECURSIVE user_projects(_, _, _)
user_projects(d, user_id, n) ==
    IF n = 0 THEN <<>>
    ELSE IF d[n].user_id = user_id THEN Append(user_projects(d, user_id, n - 1), d[n])
    ELSE user_projects(d, user_id, n - 1)

\* SessionManager.get_user_projects
get_user_projects(user_id) ==
    /\ running = 0
    /\ reply' = [op |-> "get_user_projects", user_id |-> user_id,
                 value |-> user_projects(projects, user_id, Len(projects))]
    /\ UNCHANGED <<active_requests, tasks, running, batch, projects, created>>

\* Faulty variant of project_lookup: the owner is not compared
project_lookup_any(d, project_id, user_id) == dict_get(d, project_id)

\* lines 490-493; a Project is a truthy object
project_lookup(d, project_id, user_id) ==
    LET project == dict_get(d, project_id)
    IN  IF project # None /\ project.user_id = user_id THEN project ELSE None

\* SessionManager.get_project
get_project(project_id, user_id) ==
    /\ running = 0
    /\ reply' = [op |-> "get_project", project_id |-> project_id, user_id |-> user_id,
                 value |-> project_lookup(projects, project_id, user_id)]
    /\ UNCHANGED <<active_requests, tasks, running, batch, projects, created>>

\* --------------------------------------------------------- batch endpoint
\* settings.MAX_BATCH_SIZE: the value is read from the settings at start-up;
\* the model takes a small one
MAX_BATCH_SIZE == 2
\* The task that runs the coroutine of analyze_batch and, inside it, the calls
\* of analysis_service.analyze_text one after another
BatchTask == MaxRuns

\* The items of a batch: two requests the validators accept and one they refuse
BatchRequests ==
    {[content |-> content_one, language |-> "en", domain |-> "general"],
     [content |-> content_eleven, language |-> "es", domain |-> "legal"],
     [content |-> content_one, language |-> "xx", domain |-> "general"]}
Batches == UNION {[1 .. n -> BatchRequests] : n \in 0 .. (MAX_BATCH_SIZE + 1)}

\* requests: List[AnalysisRequest] is validated item by item before the body runs
batch_valid(requests) == \A k \in 1 .. Len(requests) : AnalysisRequest_valid(requests[k])

\* POST /api/analyze/batch refused: by the validators, or by lines 203-207
analyze_batch_rejected(requests) ==
    /\ running = 0
    /\ batch.pc = "idle"
    /\ ~batch_valid(requests) \/ Len(requests) > MAX_BATCH_SIZE
    /\ batch' = [pc |-> "rejected", requests |-> requests, results |-> <<>>]
    /\ reply' = [op |-> "batch", requests |-> requests, error |-> "rejected"]
    /\ UNCHANGED <<active_requests, tasks, running, projects, created>>

\* POST /api/analyze/batch accepted: line 209, results = []
analyze_batch_accepted(requests) ==
    /\ running = 0
    /\ batch.pc = "idle"
    /\ tasks[BatchTask].pc = "idle"
    /\ batch_valid(requests)
    /\ Len(requests) <= MAX_BATCH_SIZE
    /\ batch' = [pc |-> "loop", requests |-> requests, results |-> <<>>]
    /\ running' = BatchTask
    /\ reply' = NoReply
    /\ UNCHANGED <<active_requests, tasks, projects, created>>

\* lines 210-216: the loop takes the next request and calls analyze_text
batch_call ==
    /\ CanRun(BatchTask)
    /\ batch.pc = "loop"
    /\ Len(batch.results) < Len(batch.requests)
    /\ LET request == batch.requests[Len(batch.results) + 1]
       IN  tasks' = [tasks EXCEPT ![BatchTask] =
                        [IdleTask EXCEPT !.pc = "start",
                                         !.content = validate_content(request.content),
                                         !.language = request.language,
                                         !.domain = request.domain]]
    /\ batch' = [batch EXCEPT !.pc = "await"]
    /\ running' = BatchTask
    /\ reply' = NoReply
    /\ UNCHANGED <<active_requests, projects, created>>

\* services.py line 133 and main.py line 217: analyze_text returns into the
\* loop, which appends the response; no suspension point lies between
batch_item_returned ==
    /\ CanRun(BatchTask)
    /\ batch.pc = "await"
    /\ tasks[BatchTask].pc = "return"
    /\ batch' = [batch EXCEPT !.pc = "loop", !.results = Append(@, tasks[BatchTask].response)]
    /\ tasks' = [tasks EXCEPT ![BatchTask] =
                     [IdleTask EXCEPT !.pc = "done", !.request_id = tasks[BatchTask].request_id,
                                      !.returned = tasks[BatchTask].response]]
    /\ running' = BatchTask
    /\ reply' = NoReply
    /\ UNCHANGED <<active_requests, projects, created>>

\* Faulty variant of batch_item_raised: the exception of an item is swallowed
\* and the loop tries the item again
batch_item_raised_retries ==
    /\ CanRun(BatchTask)
    /\ batch.pc = "await"
    /\ tasks[BatchTask].pc = "raise"
    /\ batch' = [batch EXCEPT !.pc = "loop"]
    /\ tasks' = [tasks EXCEPT ![BatchTask] =
                     [IdleTask EXCEPT !.pc = "done", !.request_id = tasks[BatchTask].request_id,
                                      !.raised = tasks[BatchTask].exc]]
    /\ running' = BatchTask
    /\ reply' = NoReply
    /\ UNCHANGED <<active_requests, projects, created>>

\* services.py line 139 and main.py lines 221-222: the exception of
\* analyze_text leaves the loop and the endpoint answers with handle_errors,
\* which is given the exception and a message
batch_item_raised ==
    /\ CanRun(BatchTask)
    /\ batch.pc = "await"
    /\ tasks[BatchTask].pc = "raise"
    /\ batch' = [batch EXCEPT !.pc = "failed"]
    /\ tasks' = [tasks EXCEPT ![BatchTask] =
                     [IdleTask EXCEPT !.pc = "done", !.request_id = tasks[BatchTask].request_id,
                                      !.raised = tasks[BatchTask].exc]]
    /\ running' = 0
    /\ reply' = [op |-> "batch", requests |-> batch.requests, error |-> tasks[BatchTask].exc]
    /\ UNCHANGED <<active_requests, projects, created>>

\* line 219: return results
batch_return ==
    /\ CanRun(BatchTask)
    /\ batch.pc = "loop"
    /\ Len(batch.results) = Len(batch.requests)
    /\ batch' = [batch EXCEPT !.pc = "done"]
    /\ running' = 0
    /\ reply' = [op |-> "batch", requests |-> batch.requests, results |-> batch.results]
    /\ UNCHANGED <<active_requests, tasks, projects, created>>

\* ------------------------------------------------------------ specification
Step(t) ==
    \/ register(t)
    \/ update_progress_25(t)
    \/ analyze_terms_begin(t)
    \/ analyze_terms_raise(t)
    \/ analyze_terms_word(t)
    \/ analyze_terms_return(t)
    \/ update_progress_75(t)
    \/ calculate_statistics(t)
    \/ update_progress_100(t)
    \/ create_response(t)
    \/ set_completed(t)
    \/ set_result(t)
    \/ return_response(t)
    \/ except_status(t)
    \/ except_error(t)
    \/ reraise(t)

Next ==
    \/ \E req \in Requests : analyze_rejected(req)
    \/ \E t \in Tasks, req \in Requests : analyze_accepted(t, req)
    \/ \E t \in Tasks : Step(t)
    \/ \E request_id \in RequestIds : status_lookup(request_id)

Spec == Init /\ [][Next]_vars

\* The event loop resumes every runnable coroutine: a task that stays runnable
\* (it holds the loop, or the loop is free and it is suspended or not yet begun)
\* takes its next step
FairSpec == Spec /\ \A t \in Tasks : WF_vars(Step(t))

\* One call of AnalysisService.analyze_text(content) with any content (the
\* service method takes a plain str and validates nothing; language and domain
\* take their defaults).  The service has seen MaxRuns earlier runs fail in the
\* annotator, whose entries stay in the registry.
AnalyzeInit ==
    /\ active_requests = [k \in 1 .. MaxRuns |-> [status |-> FAILED, progress |-> 25, error |-> "MemoryError"]]
    /\ running = 0
    /\ reply = NoReply
    /\ batch = NoBatch
    /\ projects = <<>>
    /\ created = <<>>
    /\ \E c \in Contents :
           tasks = [t \in Tasks |->
                      IF t = 1
                      THEN [IdleTask EXCEPT !.pc = "start", !.content = c,
                                            !.language = "en", !.domain = "general"]
                      ELSE IdleTask]

AnalyzeNext == Step(1)

AnalyzeSpec == AnalyzeInit /\ [][AnalyzeNext]_vars

\* One call of the batch endpoint, next to calls of the analysis endpoint:
\* the steps of analyze_text inside the batch are those of
\* Step but for its two ends, which lead back into the loop of the batch
BatchStep ==
    \/ batch_call
    \/ register(BatchTask)
    \/ update_progress_25(BatchTask)
    \/ analyze_terms_begin(BatchTask)
    \/ analyze_terms_raise(BatchTask)
    \/ analyze_terms_word(BatchTask)
    \/ analyze_terms_return(BatchTask)
    \/ update_progress_75(BatchTask)
    \/ calculate_statistics(BatchTask)
    \/ update_progress_100(BatchTask)
    \/ create_response(BatchTask)
    \/ set_completed(BatchTask)
    \/ set_result(BatchTask)
    \/ except_status(BatchTask)
    \/ except_error(BatchTask)
    \/ batch_item_returned
    \/ batch_item_raised
    \/ batch_return

BatchNext ==
    \/ \E requests \in Batches : analyze_batch_rejected(requests)
    \/ \E requests \in Batches : analyze_batch_accepted(requests)
    \/ BatchStep
    \/ \E t \in Tasks \ {BatchTask}, req \in Requests : analyze_accepted(t, req)
    \/ \E t \in Tasks \ {BatchTask} : Step(t)

BatchSpec == Init /\ [][BatchNext]_vars

\* Calls of the three project operations of SessionManager by two users
ProjectNext ==
    \/ \E user_id \in Users, project_data \in ProjectDatas : create_project(user_id, project_data)
    \/ \E user_id \in Users : get_user_projects(user_id)
    \/ \E project_id \in ProjectIds, user_id \in Users : get_project(project_id, user_id)

ProjectSpec == Init /\ [][ProjectNext]_vars

\* ------------------------------------------------------------------ claims
Terminal == {COMPLETED, FAILED}
Started == {t \in Tasks : tasks[t].request_id # 0}
IssuedIds == {tasks[t].request_id : t \in Started}
AllWhitespace(s) == \A n \in 1 .. Len(s) : s[n] \in Whitespace

\* C1: the status of a registry entry changes only from processing to completed
\* or from processing to failed; a completed or failed entry keeps its status
\* under every later step (never back to processing, never to the other one).
C1_StatusMovesOnlyToTerminal ==
    [][\A k \in DOMAIN active_requests :
          /\ k \in DOMAIN active_requests'
          /\ active_requests'[k].status # active_requests[k].status
               => /\ active_requests[k].status = PROCESSING
                  /\ active_requests'[k].status \in Terminal]_vars

\* One run has completed and another has failed: steps were taken after the
\* first of the two entries became terminal.
C1_Witness ==
    \E k, j \in DOMAIN active_requests :
        active_requests[k].status = COMPLETED /\ active_requests[j].status = FAILED

\* C2: a status lookup that sees status=completed for key K also sees a result,
\* the result carries request_id K and status completed, and it is the response
\* the run's caller received.
C2_LookupSeesWholeEntry ==
    (reply.op = "status" /\ reply.value.status = COMPLETED) =>
        /\ "result" \in DOMAIN reply.value
        /\ reply.value.result.request_id = reply.request_id
        /\ reply.value.result.status = COMPLETED
        /\ \E t \in Tasks :
            /\ tasks[t].request_id = reply.request_id
            /\ tasks[t].pc = "done"
            /\ tasks[t].returned = reply.value.result

\* A lookup returns a completed entry while another run is suspended in its loop.
C2_Witness ==
    /\ reply.op = "status"
    /\ reply.value.status = COMPLETED
    /\ \E t \in Tasks : tasks[t].pc = "loop" /\ tasks[t].i > 0

\* C3: a run in which annotation or aggregation raised ends with its entry
\* failed and the exception's message attached, the exception reaches the
\* caller and no response does; a later lookup of the entry sees failed and the
\* message the caller got.
C3_FailureRecordedAndRaised ==
    /\ [](\A t \in Tasks :
            /\ tasks[t].exc # NoException => tasks[t].pc \in {"except", "except_error", "raise"}
            /\ (tasks[t].pc = "done" /\ tasks[t].raised # NoException) =>
                 /\ tasks[t].returned = None
                 /\ active_requests[tasks[t].request_id].status = FAILED
                 /\ "error" \in DOMAIN active_requests[tasks[t].request_id]
                 /\ active_requests[tasks[t].request_id].error = tasks[t].raised
                 /\ "result" \notin DOMAIN active_requests[tasks[t].request_id])
    /\ [](reply.op = "status" /\ reply.value.status = FAILED =>
            /\ "error" \in DOMAIN reply.value
            /\ \E t \in Tasks : /\ tasks[t].request_id = reply.request_id
                                /\ tasks[t].raised = reply.value.error
                                /\ tasks[t].raised # NoException)
    /\ [][\A t \in Tasks :
            (tasks[t].exc # NoException /\ tasks'[t].pc = "done") =>
                 /\ tasks'[t].raised = tasks[t].exc
                 /\ tasks'[t].returned = None]_vars

\* A lookup sees the entry of a run whose annotation failed, and another run's
\* aggregation has failed too.
C3_Witness ==
    /\ reply.op = "status"
    /\ reply.value.status = FAILED
    /\ reply.value.error = "MemoryError"
    /\ \E t \in Tasks : tasks[t].raised = "ValidationError"

\* C4: a step of one run changes no registry entry but the one under the run's
\* own request id.
C4_RunTouchesOnlyOwnEntry ==
    [][\A t \in Tasks :
          tasks'[t] # tasks[t] =>
              \A k \in DOMAIN active_requests :
                  k # tasks'[t].request_id =>
                      /\ k \in DOMAIN active_requests'
                      /\ active_requests'[k] = active_requests[k]]_vars

\* Two runs are in flight, both suspended inside the annotator's loop.
C4_Witness ==
    \E t, u \in Tasks :
        /\ t # u
        /\ tasks[t].pc = "loop" /\ tasks[t].i > 0
        /\ tasks[u].pc = "loop" /\ tasks[u].i > 0
        /\ active_requests[tasks[t].request_id].progress = 25
        /\ active_requests[tasks[u].request_id].progress = 25

\* C5: under fair scheduling every registered entry in status processing
\* eventually becomes completed or failed.
C5_EveryRunTerminates ==
    \A k \in RequestIds :
        (k \in DOMAIN active_requests /\ active_requests[k].status = PROCESSING)
            ~> (k \in DOMAIN active_requests /\ active_requests[k].status \in Terminal)

\* One entry has reached a terminal status while another is still processing.
C5_Witness ==
    \E k, j \in DOMAIN active_requests :
        active_requests[k].status \in Terminal /\ active_requests[j].status = PROCESSING

\* C6: a status lookup always returns a value: the not_found sentinel for an id
\* no run was given, the id's registry entry for an id a run was given.
C6_LookupTotal ==
    reply.op = "status" =>
        IF reply.request_id \in IssuedIds
        THEN /\ reply.value = active_requests[reply.request_id]
             /\ reply.value.status \in AnalysisStatus
        ELSE reply.value = NOT_FOUND

\* A lookup of an id that was never issued, made when the registry has entries.
C6_Witness ==
    /\ reply.op = "status"
    /\ reply.value = NOT_FOUND
    /\ IssuedIds # {}

\* C7: a request whose content is empty after trimming or whose language is not
\* allowed starts no run and leaves the registry as it was: every refusal keeps
\* registry and tasks, and every task that leaves idle carries non-blank content
\* and an allowed language.
C7_InvalidRequestRejected ==
    [][/\ (reply'.op = "analyze" /\ reply' # reply) =>
              /\ active_requests' = active_requests
              /\ tasks' = tasks
              /\ \/ AllWhitespace(reply'.request.content)
                 \/ reply'.request.language \notin allowed_languages
       /\ \A t \in Tasks :
              (tasks[t].pc = "idle" /\ tasks'[t].pc # "idle") =>
                  /\ ~AllWhitespace(tasks'[t].content)
                  /\ tasks'[t].language \in allowed_languages
                  /\ active_requests' = active_requests]_vars

\* A request with a language outside the allow-list was refused while the
\* registry held an entry.
C7_Witness ==
    /\ reply.op = "analyze"
    /\ reply.request.language = "xx"
    /\ active_requests # <<>>

\* C8: an entry is registered with status processing and progress 0 before the
\* annotator is invoked; its progress is always one of 0, 25, 75, 100, it is 25
\* when the annotator runs and 75 when the aggregator runs, and it only changes
\* 0 -> 25 -> 75 -> 100.
C8_ProgressOrder ==
    /\ [](\A k \in DOMAIN active_requests : active_requests[k].progress \in {0, 25, 75, 100})
    /\ [](\A t \in Tasks :
            /\ tasks[t].pc = "progress_25" =>
                 /\ active_requests[tasks[t].request_id].status = PROCESSING
                 /\ active_requests[tasks[t].request_id].progress = 0
            /\ tasks[t].pc \in {"annotate", "loop", "progress_75"} =>
                 active_requests[tasks[t].request_id].progress = 25
            /\ tasks[t].pc \in {"statistics", "progress_100"} =>
                 active_requests[tasks[t].request_id].progress = 75
            /\ tasks[t].pc \in {"response", "set_completed", "set_result", "return"} =>
                 active_requests[tasks[t].request_id].progress = 100)
    /\ [][\A k \in DOMAIN active_requests :
            active_requests'[k].progress # active_requests[k].progress =>
                <<active_requests[k].progress, active_requests'[k].progress>>
                    \in {<<0, 25>>, <<25, 75>>, <<75, 100>>}]_vars

\* One run went through 100 and completed, another failed in aggregation at 75.
C8_Witness ==
    \E k, j \in DOMAIN active_requests :
        /\ active_requests[k].progress = 100 /\ active_requests[k].status = COMPLETED
        /\ active_requests[j].progress = 75 /\ active_requests[j].status = FAILED

\* C9: runs never share a request id, the registry's keys are exactly the ids
\* of the runs started so far, a run keeps its id, and no key is ever removed.
C9_OneEntryPerRun ==
    /\ [](\A t, u \in Started : t # u => tasks[t].request_id # tasks[u].request_id)
    /\ [](DOMAIN active_requests = IssuedIds)
    /\ [][/\ DOMAIN active_requests \subseteq DOMAIN active_requests'
          /\ \A t \in Started : tasks'[t].request_id = tasks[t].request_id]_vars

\* Two runs are live at once, each with its own entry.
C9_Witness ==
    /\ Cardinality(DOMAIN active_requests) >= 2
    /\ \E t, u \in Started : t # u /\ tasks[t].pc # "done" /\ tasks[u].pc # "done"

\* C10: a status lookup, of a known or an unknown id, leaves the registry as it
\* was; a lookup of an unknown id inserts nothing.
C10_LookupReadsOnly ==
    [][reply'.op = "status" => active_requests' = active_requests]_vars

\* A lookup of an unknown id was made while a run was suspended, and the id is
\* still absent.
C10_Witness ==
    /\ reply.op = "status"
    /\ reply.request_id \notin DOMAIN active_requests
    /\ \E t \in Tasks : tasks[t].pc = "loop"

\* The terms the annotator has built so far in the runs that are in their loop
\* or past it
BuiltTerms == UNION {{tasks[t].terms[n] : n \in 1 .. Len(tasks[t].terms)} : t \in Tasks}
\* language and domain arguments a caller may pass (the endpoint's allow-list,
\* a code outside it, and two domains)
\* The term built by the last iteration of the annotator's loop
LastBuilt == {tasks[t].terms[Len(tasks[t].terms)] : t \in {u \in Tasks : tasks[u].pc = "loop" /\ tasks[u].terms # <<>>}}
SomeLanguages == allowed_languages \cup {"xx"}
SomeDomains == {"general", "legal"}

\* C11: the label of a term is that of the first rule that matches, in the
\* order: shorter than 2 characters -> critical; lowercased form one of the,
\* and, or, but, in, on, at, to -> valid; some character a digit -> review;
\* some character not a letter -> spelling; otherwise valid.  The label is the
\* same for every language and domain.
C11_ClassifierPolicy ==
    \A term \in BuiltTerms :
        LET w == term.text
            short == Len(w) < 2
            stop == \E sw \in stop_words :
                        Len(sw) = Len(w) /\ \A n \in 1 .. Len(w) : lower_char(w[n]) = sw[n]
            digit == \E n \in 1 .. Len(w) : w[n] \in Digits
            other == \E n \in 1 .. Len(w) : w[n] \notin Letters
        IN  /\ short => term.classification = CRITICAL
            /\ ~short /\ stop => term.classification = VALID
            /\ ~short /\ ~stop /\ digit => term.classification = REVIEW
            /\ ~short /\ ~stop /\ ~digit /\ other => term.classification = SPELLING
            /\ ~short /\ ~stop /\ ~digit /\ ~other => term.classification = VALID
            /\ \A language \in SomeLanguages, domain \in SomeDomains :
                   _classify_term(w, language, domain) = term.classification

\* The annotator has labelled a word that holds both a digit and a punctuation
\* mark (review wins over spelling), and a one-character digit (critical wins
\* over review).
C11_Witness ==
    /\ \E term \in BuiltTerms :
           /\ term.classification = REVIEW
           /\ \E n \in 1 .. Len(term.text) : term.text[n] = "-"
    /\ \E term \in BuiltTerms : term.text = <<"1">> /\ term.classification = CRITICAL

\* Every value the scorer may be handed as a classification: the five labels
\* and one that is none of them
AnyClassification == TermClassification \cup {"other"}

\* C12: whatever the classification and the length of the term, the score lies
\* in [0, 1] and the confidence derived from it in [0.1, 0.9]; so do the score
\* and the confidence of every term the annotator builds.
C12_ScoreAndConfidenceInRange ==
    \A term \in LastBuilt :
        /\ float_le(FloatZero, term.score) /\ float_le(term.score, FloatOne)
        /\ float_le(FloatTenth, term.confidence) /\ float_le(term.confidence, FloatNineTenths)
        /\ \A c \in AnyClassification :
               LET score == _calculate_term_score(term.text, c)
                   confidence == term_confidence(score)
               IN  /\ float_le(FloatZero, score) /\ float_le(score, FloatOne)
                   /\ float_le(FloatTenth, confidence) /\ float_le(confidence, FloatNineTenths)

\* The annotator has scored a valid word longer than 10 characters: its score
\* is at the upper end 1.0 and its confidence at the upper end 0.9.
C12_Witness ==
    \E term \in LastBuilt :
        /\ Len(term.text) > 10
        /\ term.classification = VALID
        /\ term.score = FloatOne
        /\ term.confidence = FloatNineTenths

\* |x - num / den| <= 2^-50 for a float x > 0 below 2 and 0 < den < LimbBase:
\* x is the fraction up to the rounding of a few float operations
float_near(x, num, den) ==
    LET a == big_mul_small(x.m, den)
        b == big_shl(big_from_int(num), 0 - x.e)
        diff == IF big_cmp(a, b) >= 0 THEN big_sub(a, b) ELSE big_sub(b, a)
    IN  big_cmp(big_shl(diff, 50), big_shl(big_from_int(den), 0 - x.e)) <= 0

\* Base score of the documented table, in thousandths
C13_base(c) ==
    CASE c = VALID -> 900
      [] c = REVIEW -> 600
      [] c = CRITICAL -> 300
      [] c = SPELLING -> 200
      [] c = GRAMMAR -> 400
      [] OTHER -> 500

\* min(1.0, base + 0.1 * min(1.0, len / 10)) in exact thousandths
C13_score(c, len) ==
    LET bonus == IF len >= 10 THEN 100 ELSE 10 * len
    IN  IF C13_base(c) + bonus >= 1000 THEN 1000 ELSE C13_base(c) + bonus

\* clamp(score + 0.1, 0.1, 0.9) in exact thousandths
C13_confidence(score) ==
    IF score + 100 <= 100 THEN 100 ELSE IF score + 100 >= 900 THEN 900 ELSE score + 100

\* C13: for every classification c and term of length len the score is
\* min(1.0, base(c) + 0.1 * min(1.0, len / 10)), with base valid 0.90, review
\* 0.60, critical 0.30, spelling 0.20, grammar 0.40 and 0.50 for anything
\* else, up to the rounding of the float operations; the score is never below
\* the base; the confidence is the score plus 0.1 clamped to [0.1, 0.9].  The
\* terms the annotator builds carry the score of their own classification and
\* the confidence of that score.
C13_ScoreFormula ==
    \A term \in LastBuilt :
        /\ term.score = _calculate_term_score(term.text, term.classification)
        /\ term.confidence = term_confidence(term.score)
        /\ \A c \in AnyClassification :
               LET score == _calculate_term_score(term.text, c)
                   confidence == term_confidence(score)
                   exact == C13_score(c, Len(term.text))
               IN  /\ float_near(score, exact, 1000)
                   /\ float_near(base_score(c), C13_base(c), 1000)
                   /\ float_le(base_score(c), score)
                   /\ float_near(confidence, C13_confidence(exact), 1000)
                   /\ confidence = float_min(FloatNineTenths, float_max(FloatTenth, float_add(score, FloatTenth)))

\* The annotator has scored a spelling-class word longer than 10 characters:
\* the length factor is capped (0.2 + 0.1) and the confidence is 0.4.
C13_Witness ==
    \E term \in LastBuilt :
        /\ Len(term.text) > 10
        /\ term.classification = SPELLING
        /\ float_near(term.score, 300, 1000)
        /\ float_near(term.confidence, 400, 1000)

\* The runs whose statistics have been computed from the terms they hold
Aggregated == {t \in Tasks : tasks[t].statistics # None}

C15_AverageBetweenExtrema ==
    \A t \in Aggregated :
        LET st == tasks[t].statistics
            terms == tasks[t].terms
        IN  terms # <<>> =>
                /\ \E n \in 1 .. Len(terms) : terms[n].confidence = st.confidence_min
                /\ \E n \in 1 .. Len(terms) : terms[n].confidence = st.confidence_max
                /\ \A n \in 1 .. Len(terms) :
                       /\ float_le(st.confidence_min, terms[n].confidence)
                       /\ float_le(terms[n].confidence, st.confidence_max)
                /\ float_le(st.confidence_min, st.confidence_avg)
                /\ float_le(st.confidence_avg, st.confidence_max)

\* C16: the statistics computed from the empty sequence of terms have
\* total_terms and all five counts 0 and quality_score, confidence_min,
\* confidence_max and confidence_avg 0.0; computing them does not fail: a run
\* about to aggregate no terms gets a record that passes validation unless the
\* clock went back.
C16_EmptySequence ==
    /\ \A t \in Aggregated :
           LET st == tasks[t].statistics
           IN  tasks[t].terms = <<>> =>
                   /\ st.total_terms = 0
                   /\ st.valid_terms = 0 /\ st.review_terms = 0 /\ st.critical_terms = 0
                   /\ st.spelling_errors = 0 /\ st.grammar_errors = 0
                   /\ st.quality_score = FloatZero
                   /\ st.confidence_min = FloatZero
                   /\ st.confidence_max = FloatZero
                   /\ st.confidence_avg = FloatZero
    /\ \A t \in Tasks :
           tasks[t].pc = "statistics" /\ tasks[t].terms = <<>> =>
               \A elapsed \in Elapsed :
                   elapsed >= 0 => AnalysisStatistics_valid(_calculate_statistics(<<>>, elapsed))

\* Statistics have been computed for a content of blanks, which has no words.
C16_Witness ==
    \E t \in Aggregated :
        /\ tasks[t].terms = <<>>
        /\ tasks[t].content # <<>>
        /\ tasks[t].statistics.total_terms = 0

\* The words of a text: the maximal runs of characters that are not blanks.
\* WordStarts and WordEnds are the positions (from 1) of their first and last
\* characters; the n-th word runs from the n-th start to the n-th end.
WordStarts(s) == {k \in 1 .. Len(s) : ~isspace(s[k]) /\ (k = 1 \/ isspace(s[k - 1]))}
WordEnds(s) == {k \in 1 .. Len(s) : ~isspace(s[k]) /\ (k = Len(s) \/ isspace(s[k + 1]))}
Nth(S, n) == CHOOSE k \in S : Cardinality({j \in S : j <= k}) = n
Word(s, n) == SubSeq(s, Nth(WordStarts(s), n), Nth(WordEnds(s), n))
NumWords(s) == Cardinality(WordStarts(s))

\* C17: the annotator builds one term per word of the content, in the order of
\* the words: while it loops the terms built are those of the first words,
\* when it has returned there is one term per word, the n-th term holding the
\* n-th word, and the statistics and the response of the run count as many
\* terms as the content has words.
C17_OneTermPerWord ==
    \A t \in Tasks :
        LET me == tasks[t]
        IN  /\ Len(me.terms) <= NumWords(me.content)
            /\ \A n \in 1 .. Len(me.terms) : me.terms[n].text = Word(me.content, n)
            /\ me.pc = "loop" => Len(me.terms) = me.i
            /\ me.pc = "progress_75" => Len(me.terms) = NumWords(me.content)
            /\ t \in Aggregated =>
                   /\ Len(me.terms) = NumWords(me.content)
                   /\ me.statistics.total_terms = NumWords(me.content)
            /\ me.response # None =>
                   /\ me.response.terms = me.terms
                   /\ me.response.statistics.total_terms = NumWords(me.content)
                   /\ active_requests[me.request_id].status = COMPLETED
                          /\ "result" \in DOMAIN active_requests[me.request_id] =>
                              active_requests[me.request_id].result.statistics.total_terms = NumWords(me.content)

\* A run has stored its result for a content of three words, the first two
\* equal and the third another.
C17_Witness ==
    \E t \in Tasks :
        /\ tasks[t].response # None
        /\ "result" \in DOMAIN active_requests[tasks[t].request_id]
        /\ Len(tasks[t].terms) = 3
        /\ tasks[t].terms[1].text = tasks[t].terms[2].text
        /\ tasks[t].terms[3].text # tasks[t].terms[1].text

\* content[start:end] of a Python str, offsets from 0
Slice(s, start, end) == SubSeq(s, start + 1, end)

\* C18: start_position of a term is the least offset at which its text occurs
\* in the content as a substring, end_position is start_position plus the
\* length of the text and lies beyond start_position, the content between the
\* two offsets is the text, and terms with the same text have the same
\* positions.
C18_PositionsOfFirstOccurrence ==
    \A t \in Tasks :
        LET content == tasks[t].content
            terms == tasks[t].terms
        IN  \A n \in 1 .. Len(terms) :
                LET term == terms[n]
                IN  /\ term.start_position >= 0
                    /\ term.end_position = term.start_position + Len(term.text)
                    /\ term.end_position > term.start_position
                    /\ term.end_position <= Len(content)
                    /\ Slice(content, term.start_position, term.end_position) = term.text
                    /\ \A k \in 0 .. (term.start_position - 1) :
                           Slice(content, k, k + Len(term.text)) # term.text
                    /\ \A m \in 1 .. Len(terms) :
                           terms[m].text = term.text =>
                               /\ terms[m].start_position = term.start_position
                               /\ terms[m].end_position = term.end_position

\* The annotator has placed a word at an offset inside an earlier, longer word
\* rather than at the word's own offset.
C18_Witness ==
    \E t \in Tasks :
        \E n \in 1 .. Len(tasks[t].terms) :
            /\ n > 1
            /\ tasks[t].terms[n].start_position + 1 < Nth(WordStarts(tasks[t].content), n)
            /\ tasks[t].terms[n].text # tasks[t].terms[1].text

\* C19: frequency of a term is the number of words of the content equal to
\* its text, and is at least 1.
C19_FrequencyCountsEqualWords ==
    \A t \in Tasks :
        LET content == tasks[t].content
            terms == tasks[t].terms
        IN  \A n \in 1 .. Len(terms) :
                /\ terms[n].frequency =
                       Cardinality({k \in 1 .. NumWords(content) : Word(content, k) = terms[n].text})
                /\ terms[n].frequency >= 1

\* The annotator has counted a word that occurs twice beside a different word.
C19_Witness ==
    \E t \in Tasks :
        /\ Len(tasks[t].terms) = 3
        /\ tasks[t].terms[1].frequency = 2
        /\ tasks[t].terms[3].frequency = 1

\* What a run of analyze_text computes when nothing else runs: the terms of
\* the words of the content in order, and the statistics of those terms with
\* the elapsed time left out
AloneTerms(content, language, domain) ==
    LET words == split(content)
    IN  [n \in 1 .. Len(words) |-> AnalyzedTerm(content, words, words[n], language, domain)]
Untimed(statistics) == [statistics EXCEPT !.processing_time = 0]
AloneStatistics(content, language, domain) == _calculate_statistics(AloneTerms(content, language, domain), 0)

\* C21: whatever other runs are in flight and however their steps fall between
\* the suspensions of a run, the terms and the statistics (but for
\* processing_time) in the response of the run and in its registry entry are
\* those the run computes alone from its content; two runs with the same
\* content, language and domain build the same terms and statistics.
C21_ResultDependsOnContentOnly ==
    /\ \A t \in Tasks :
           LET me == tasks[t]
           IN  me.response # None =>
                   /\ me.response.terms = AloneTerms(me.content, me.language, me.domain)
                   /\ Untimed(me.response.statistics) = AloneStatistics(me.content, me.language, me.domain)
                   /\ "result" \in DOMAIN active_requests[me.request_id] =>
                          /\ active_requests[me.request_id].result.terms = me.response.terms
                          /\ active_requests[me.request_id].result.statistics = me.response.statistics
    /\ \A t, u \in Tasks :
           /\ tasks[t].content = tasks[u].content
           /\ tasks[t].language = tasks[u].language
           /\ tasks[t].domain = tasks[u].domain
           => /\ \A n \in 1 .. Len(tasks[t].terms) :
                     n <= Len(tasks[u].terms) => tasks[t].terms[n] = tasks[u].terms[n]
              /\ tasks[t].statistics # None /\ tasks[u].statistics # None =>
                     Untimed(tasks[t].statistics) = Untimed(tasks[u].statistics)

\* A run over eleven words, which was suspended twice, has its response while
\* another run is suspended in the middle of its own loop.
C21_Witness ==
    \E t, u \in Tasks :
        /\ t # u
        /\ tasks[t].response # None
        /\ Len(tasks[t].response.terms) = 11
        /\ tasks[u].pc = "loop"
        /\ tasks[u].i >= 1
        /\ running = t

\* C22: the suggestions of a term are fixed by its classification: none for a
\* valid term; the term followed by "ed", the term followed by "ing" and the
\* term with its first character in upper case and the others in lower case,
\* in this order, for a spelling term; the three fixed strings for a
\* critical term; the two fixed strings for a review term; and the generator
\* returns the empty list for any other classification.
C22_SuggestionsByClassification ==
    \A term \in LastBuilt :
        LET w == term.text
        IN  /\ term.classification = VALID => term.suggestions = None
            /\ term.classification = SPELLING =>
                   /\ Len(term.suggestions) = 3
                   /\ term.suggestions[1] = w \o <<"e","d">>
                   /\ term.suggestions[2] = w \o <<"i","n","g">>
                   /\ Len(term.suggestions[3]) = Len(w)
                   /\ \A n \in 1 .. Len(w) :
                          LET c == term.suggestions[3][n]
                          IN  /\ lower_char(c) = lower_char(w[n])
                              /\ isalpha_char(c) => (c = upper_char(c)) = (n = 1)
            /\ term.classification = CRITICAL =>
                   term.suggestions = <<<<"C","o","n","s","i","d","e","r"," ","r","e","p","h","r","a","s","i","n","g">>,
                                        <<"C","h","e","c","k"," ","f","o","r"," ","a","c","c","u","r","a","c","y">>,
                                        <<"V","e","r","i","f","y"," ","c","o","n","t","e","x","t">>>>
            /\ term.classification = REVIEW =>
                   term.suggestions = <<<<"R","e","v","i","e","w"," ","f","o","r"," ","c","l","a","r","i","t","y">>,
                                        <<"C","o","n","s","i","d","e","r"," ","a","l","t","e","r","n","a","t","i","v","e","s">>>>
            /\ \A c \in AnyClassification \ {SPELLING, CRITICAL, REVIEW} : _generate_suggestions(w, c) = <<>>

\* A spelling term with a capital after its first character has been built:
\* "a-B" with the suggestions "a-Bed", "a-Bing" and "A-b"
C22_Witness ==
    \E term \in LastBuilt :
        /\ term.classification = SPELLING
        /\ term.text = <<"a","-","B">>
        /\ term.suggestions[3] = <<"A","-","b">>

\* A registry entry is consistent: it has a result exactly when it is
\* completed, an error exactly when it is failed, and progress 100 when it is
\* completed
EntryConsistent(entry) ==
    /\ ("result" \in DOMAIN entry) = (entry.status = COMPLETED)
    /\ ("error" \in DOMAIN entry) = (entry.status = FAILED)
    /\ entry.status = COMPLETED => entry.progress = 100
\* The run of task t stands between the two assignments that end it: lines
\* 130 and 131, or lines 137 and 138
BetweenFinalWrites(t) == tasks[t].pc \in {"set_result", "except_error"}

\* C23 (as stated): in every reachable state every registry entry is
\* consistent: a result if and only if completed, an error if and only if
\* failed, and completed implies progress 100.
C23_EveryStateConsistent == \A id \in DOMAIN active_requests : EntryConsistent(active_requests[id])

\* C23 (amended): a registry entry is consistent in every state but those in
\* which its own run stands between the two assignments that end it; that run
\* then holds the event loop, so every entry is consistent whenever another
\* coroutine can run.
C23_ConsistentOutsideFinalWrites ==
    /\ \A id \in DOMAIN active_requests :
           \/ EntryConsistent(active_requests[id])
           \/ \E t \in Tasks :
                  /\ tasks[t].request_id = id
                  /\ BetweenFinalWrites(t)
                  /\ running = t
    /\ running = 0 => C23_EveryStateConsistent

\* The event loop is free while one entry is completed with its result and
\* another one is failed with its error.
C23_Witness ==
    /\ running = 0
    /\ \E id \in DOMAIN active_requests :
           /\ active_requests[id].status = COMPLETED
           /\ "result" \in DOMAIN active_requests[id]
    /\ \E id \in DOMAIN active_requests :
           /\ active_requests[id].status = FAILED
           /\ "error" \in DOMAIN active_requests[id]

\* The registry entries of the completed runs
CompletedIds == {id \in DOMAIN active_requests : active_requests[id].status = COMPLETED /\ "result" \in DOMAIN active_requests[id]}

\* C24: the classifier never returns grammar, for any word under any language
\* and domain, so no term is a grammar term and the statistics of every
\* completed run have grammar_errors = 0 and valid_terms + review_terms +
\* critical_terms + spelling_errors = total_terms.
C24_NoGrammarTerms ==
    /\ \A t \in Tasks : \A n \in 1 .. Len(tasks[t].words) :
           \A language \in SomeLanguages, domain \in SomeDomains :
               _classify_term(tasks[t].words[n], language, domain) # GRAMMAR
    /\ \A term \in BuiltTerms : term.classification # GRAMMAR
    /\ \A id \in CompletedIds :
           LET st == active_requests[id].result.statistics
           IN  /\ st.grammar_errors = 0
               /\ st.valid_terms + st.review_terms + st.critical_terms + st.spelling_errors = st.total_terms
               /\ st.total_terms = Len(active_requests[id].result.terms)

\* A run has completed over words of all four classifications the classifier
\* yields.
C24_Witness ==
    \E id \in CompletedIds :
        LET st == active_requests[id].result.statistics
        IN  /\ st.valid_terms >= 1
            /\ st.review_terms >= 1
            /\ st.critical_terms >= 1
            /\ st.spelling_errors >= 1

\* The registry entries created by the batch: those of the responses collected
\* and that of the item in progress or last run
BatchIds ==
    {batch.results[k].request_id : k \in 1 .. Len(batch.results)} \cup ({tasks[BatchTask].request_id} \ {0})
BatchInvariant ==
    /\ batch.pc = "rejected" => tasks[BatchTask] = IdleTask /\ BatchIds = {}
    /\ batch.pc = "rejected" /\ batch_valid(batch.requests) => Len(batch.requests) > MAX_BATCH_SIZE
    /\ batch.pc # "rejected" => Len(batch.requests) <= MAX_BATCH_SIZE
    /\ Cardinality({id \in BatchIds : active_requests[id].status = PROCESSING}) <= 1
    /\ tasks[BatchTask].raised # NoException => batch.pc = "failed"
    /\ Cardinality(BatchIds) <= Len(batch.results) + 1
    /\ \A k \in 1 .. Len(batch.results) :
           LET request == batch.requests[k]
               result == batch.results[k]
           IN  /\ result.language = request.language
               /\ result.domain = request.domain
               /\ result.terms = AloneTerms(validate_content(request.content), request.language, request.domain)
               /\ active_requests[result.request_id].status = COMPLETED
               /\ active_requests[result.request_id].result = result
               /\ \A j \in 1 .. Len(batch.results) : j # k => batch.results[j].request_id # result.request_id
    /\ batch.pc = "await" =>
           /\ Len(batch.results) < Len(batch.requests)
           /\ tasks[BatchTask].language = batch.requests[Len(batch.results) + 1].language
           /\ tasks[BatchTask].content = validate_content(batch.requests[Len(batch.results) + 1].content)
           /\ tasks[BatchTask].request_id # 0 =>
                  \A k \in 1 .. Len(batch.results) : batch.results[k].request_id # tasks[BatchTask].request_id
    /\ batch.pc = "failed" =>
           /\ Len(batch.results) < Len(batch.requests)
           /\ tasks[BatchTask].pc = "done"
           /\ tasks[BatchTask].request_id # 0 =>
                  /\ active_requests[tasks[BatchTask].request_id].status = FAILED
                  /\ Cardinality(BatchIds) = Len(batch.results) + 1
    /\ batch.pc = "done" => Len(batch.results) = Len(batch.requests)
BatchStepProperty ==
    /\ batch.pc = "idle" /\ batch'.pc = "rejected" => active_requests' = active_requests /\ tasks' = tasks
    /\ batch.pc = "failed" => batch' = batch /\ tasks'[BatchTask] = tasks[BatchTask]
    /\ Len(batch'.results) > Len(batch.results) =>
           /\ batch'.results = Append(batch.results, tasks[BatchTask].response)
           /\ tasks[BatchTask].pc = "return"
    /\ batch'.requests # batch.requests => batch.pc = "idle"

\* C25: a batch with more items than MAX_BATCH_SIZE is refused with the
\* registry and every run left as they are, no item analysed; an accepted
\* batch runs its items one after another in the order of the requests (the
\* k-th response is that of the k-th request, and an item starts only when
\* the entries of all items before it are completed), so at most one entry
\* the batch created is processing at any time; and when item k fails the
\* entries of the items before it stay completed, the batch ends, and no entry
\* is created for an item after k.
C25_BatchSequential == [](BatchInvariant) /\ [][BatchStepProperty]_vars

\* The second item of a batch of two has failed after the first one completed,
\* while a call of the analysis endpoint has an entry of its own.
C25_Witness ==
    /\ batch.pc = "failed"
    /\ Len(batch.requests) = 2
    /\ Len(batch.results) = 1
    /\ Cardinality(DOMAIN active_requests) = 3
    /\ active_requests[batch.results[1].request_id].status = COMPLETED

\* The projects the calls of create_project by user_id have returned
CreatedBy(user_id) == {created[n].project : n \in {m \in 1 .. Len(created) : created[m].user_id = user_id}}
ProjectReadsInvariant ==
    /\ reply.op = "get_project" =>
           LET mine == {project \in CreatedBy(reply.user_id) : project.project_id = reply.project_id}
           IN  IF mine = {} THEN reply.value = None ELSE reply.value \in mine
    /\ reply.op = "get_user_projects" =>
           /\ {reply.value[n] : n \in 1 .. Len(reply.value)} = CreatedBy(reply.user_id)
           /\ Len(reply.value) = Cardinality(CreatedBy(reply.user_id))
           /\ \A n \in 1 .. Len(reply.value) : reply.value[n].user_id = reply.user_id
ProjectReadsStep ==
    reply' # reply /\ reply'.op \in {"get_project", "get_user_projects"} => projects' = projects /\ created' = created

\* C26: after any calls of create_project by any users, get_project(project_id,
\* user_id) returns the project of that id when user_id created it and None
\* otherwise (the project of another user, public or not, and an unknown id);
\* get_user_projects(user_id) returns exactly the projects user_id created,
\* each once; and neither read changes the project store.
C26_ProjectsOfOwnerOnly == [](ProjectReadsInvariant) /\ [][ProjectReadsStep]_vars

\* A user asks for a public project that another user created and gets None,
\* having created a project of their own.
C26_Witness ==
    /\ reply.op = "get_project"
    /\ reply.value = None
    /\ CreatedBy(reply.user_id) # {}
    /\ \E n \in 1 .. Len(created) :
           /\ created[n].project.project_id = reply.project_id
           /\ created[n].user_id # reply.user_id
           /\ created[n].project.is_public

====
